---------------------------- MODULE Spec2Model ----------------------------
(***************************************************************************)
(* A model of the static-jump-resolution analysis core: the context model  *)
(* (context.py), the qualified live sets and per-node state (live_vars.py),*)
(* the intraprocedurally eager worklist (supergraph/__init__.py), the      *)
(* supergraph builder (supergraph/supergraph.py), the block transfer       *)
(* engine (engine.py) and the fixpoint driver hooks                        *)
(* (static_jump_resolution.py).                                            *)
(*                                                                         *)
(* Python calls either return a value or raise.  Every modelled call       *)
(* yields an outcome: Ok(v) for a normal return of v, Raise(e) for an      *)
(* exception of class e that leaves the call.  An exception raised inside  *)
(* a callee propagates through every caller that does not catch it.        *)
(***************************************************************************)
EXTENDS Integers, Sequences, FiniteSets, TLC

VARIABLES
    op,     \* name of the last call made on the units ("none" at start)
    args,   \* its arguments, a sequence
    out,    \* its outcome, Ok(v) or Raise(e)
    wl,     \* the Worklist object: direction and its four lists
    drv,    \* the analysis run: pc, cfg, supergraph, error
    cs,     \* the record list of the CallString object being used
    ls,     \* the QualifiedLiveSet object being used: ctx and uses
    gen     \* the frame of the generator Worklist.exhaust returned

vars == <<op, args, out, wl, drv, cs, ls, gen>>

----------------------------------------------------------------------------
(* Bounds of the model. *)

\* call-site addresses are 1..MaxAddr
MaxAddr == 3
\* call strings hold at most MaxLen records
MaxLen == 2

----------------------------------------------------------------------------
(* Outcomes of calls. *)

Ok(v) == [tag |-> "ok", val |-> v]

Raise(e) == [tag |-> "raise", val |-> e]

IsOk(o) == o.tag = "ok"

Raised(o) == o.tag = "raise"

\* the outcome is a normal return of exactly v
Returns(o, v) == o.tag = "ok" /\ o.val = v

\* the rest of a body runs on the value of a call that returned; an
\* exception raised by the call leaves the body
Bind(o, F(_)) == IF Raised(o) THEN o ELSE F(o.val)

----------------------------------------------------------------------------
(* Supergraph nodes: CFG nodes and dummy nodes (supergraph.py).  A node is  *)
(* a record of the attributes the analysis reads; a CFG node is identified *)
(* by its address, a dummy node by its parent block and its type.  The     *)
(* test suite's CFGNode has instruction_addrs == [addr].                   *)

Addrs == 1..MaxAddr

JumpKinds == {"Ijk_Boring", "Ijk_Call", "Ijk_Ret", "Ijk_Sys_syscall"}

CFGNode(a, fn, ret, simproc, jk) ==
    [kind |-> "CFGNode", addr |-> a, dummy_type |-> "none", function_address |-> fn,
     has_return |-> ret, is_simprocedure |-> simproc, jumpkind |-> jk]

\* a dummy node has no attribute but its parent node and its type
DummyNode(a, t) ==
    [kind |-> "DummyNode", addr |-> a, dummy_type |-> t, function_address |-> 0,
     has_return |-> FALSE, is_simprocedure |-> FALSE, jumpkind |-> "none"]

NoneNode ==
    [kind |-> "None", addr |-> 0, dummy_type |-> "none", function_address |-> 0,
     has_return |-> FALSE, is_simprocedure |-> FALSE, jumpkind |-> "none"]

\* the blocks of the functions entered at address 1 and at their own address
CFGNodes ==
    UNION {{CFGNode(a, fn, ret, FALSE, jk) :
                fn \in {1, a}, ret \in BOOLEAN, jk \in JumpKinds} : a \in Addrs}

DummyCallNodes == {DummyNode(a, "Dummy_Call") : a \in Addrs}

DummyRetNodes == {DummyNode(a, "Dummy_Ret") : a \in Addrs}

DummyNodes == DummyCallNodes \cup DummyRetNodes

instruction_addrs(a) == <<a>>

\* DummyNode.call_addr: the last instruction address of the parent block
DummyNode_call_addr(d) == instruction_addrs(d.addr)[Len(instruction_addrs(d.addr))]

\* DummyNode.__eq__: its first conjunct reads the global name CallNode, which
\* the module never defines, so every comparison raises NameError before the
\* parent nodes or the dummy types are looked at.
DummyNode_eq(d, e) == Raise("NameError")

\* DummyNode.__hash__: the body computes the hash and drops it (no return), so
\* the method returns None and hash() raises TypeError.
DummyNode_hash(d) == Raise("TypeError")

----------------------------------------------------------------------------
(* Call records and call strings (context.py). *)

DEFAULT_SP == 0 - 24

DEFAULT_BP == 0 - 8

CtxRecord(node, sp, bp) == [node |-> node, sp |-> sp, bp |-> bp]

CtxRecord_call_addr(r) == DummyNode_call_addr(r.node)

\* CtxRecord.__eq__: compares the call nodes only (sp and bp are ignored)
CtxRecord_eq(r, s) == DummyNode_eq(r.node, s.node)

\* `r != s`: CtxRecord defines no __ne__, so Python inverts __eq__
CtxRecord_ne(r, s) ==
    LET e == CtxRecord_eq(r, s)
    IN  IF Raised(e) THEN e ELSE Ok(~e.val)

\* the records used in call strings: one per call site, with the pointer
\* snapshots of tests/mock_nodes.py
Records == {CtxRecord(d, DEFAULT_SP, DEFAULT_BP) : d \in DummyCallNodes}

\* CtxRecord.__hash__: hash(("CtxRecord", self._node)) hashes the call node
CtxRecord_hash(r) == Bind(DummyNode_hash(r.node), LAMBDA h : Ok(<<"CtxRecord", h>>))

\* records of the same call sites taken with different pointer snapshots
SnapshotRecords ==
    {CtxRecord(d, sp, bp) : d \in DummyCallNodes,
                            sp \in {DEFAULT_SP, DEFAULT_SP - 8},
                            bp \in {DEFAULT_BP, DEFAULT_BP - 8}}

RECURSIVE SeqsUpTo(_, _)
SeqsUpTo(S, n) ==
    IF n = 0 THEN {<< >>}
    ELSE LET shorter == SeqsUpTo(S, n - 1)
         IN  shorter \cup {Append(s, x) : s \in {t \in shorter : Len(t) = n - 1}, x \in S}

\* a CallString is its list of records, bottom (oldest) first
CallStrings == SeqsUpTo(Records, MaxLen)

\* CallString.top: None for the empty string, else the last record
CallString_top(A) == IF Len(A) = 0 THEN Ok([kind |-> "None"]) ELSE Ok(A[Len(A)])

\* CallString.push: list.append; the call returns None
CallString_push(A, r) == [out |-> Ok([kind |-> "None"]), cs |-> Append(A, r)]

\* a pop that takes the oldest record instead of the most recent
CallString_pop_oldest(A) ==
    IF Len(A) = 0 THEN [out |-> Raise("IndexError"), cs |-> A]
    ELSE [out |-> Ok(A[1]), cs |-> SubSeq(A, 2, Len(A))]

\* CallString.pop: list.pop(), which raises IndexError on an empty list
CallString_pop(A) ==
    IF Len(A) = 0 THEN [out |-> Raise("IndexError"), cs |-> A]
    ELSE [out |-> Ok(A[Len(A)]), cs |-> SubSeq(A, 1, Len(A) - 1)]

\* CallString.stack: a copy of the record list
CallString_stack(A) == Ok([i \in 1..Len(A) |-> A[i]])

Min(a, b) == IF a < b THEN a ELSE b

\* A is a prefix of B, by the records' fields (the intended relation)
IsPrefix(A, B) == Len(A) <= Len(B) /\ \A i \in 1..Len(A) : A[i] = B[i]

\* the loop `for (n, m) in zip(...): if n != m: return False` followed by
\* `return True`, from position i on
RECURSIVE ZipAllEqual(_, _, _)
ZipAllEqual(A, B, i) ==
    IF i > Min(Len(A), Len(B)) THEN Ok(TRUE)
    ELSE LET ne == CtxRecord_ne(A[i], B[i])
         IN  IF Raised(ne) THEN ne
             ELSE IF ne.val THEN Ok(FALSE)
             ELSE ZipAllEqual(A, B, i + 1)

\* CallString.__eq__
CallString_eq(A, B) ==
    IF Len(A) # Len(B) THEN Ok(FALSE) ELSE ZipAllEqual(A, B, 1)

\* CallString.can_represent
CallString_can_represent(A, B) ==
    IF Len(B) < Len(A) THEN Ok(FALSE) ELSE ZipAllEqual(A, B, 1)

\* the loop over zip(...) comparing call_addr: "lt", "gt", or "tie" when the
\* zipped positions all have equal call-site addresses
RECURSIVE ZipCompareAddr(_, _, _)
ZipCompareAddr(A, B, i) ==
    IF i > Min(Len(A), Len(B)) THEN "tie"
    ELSE IF CtxRecord_call_addr(A[i]) < CtxRecord_call_addr(B[i]) THEN "lt"
    ELSE IF CtxRecord_call_addr(A[i]) > CtxRecord_call_addr(B[i]) THEN "gt"
    ELSE ZipCompareAddr(A, B, i + 1)

\* CallString.__lt__: the per-position loop runs first, the lengths are
\* compared only when the loop finds no difference
CallString_lt(A, B) ==
    LET c == ZipCompareAddr(A, B, 1)
    IN  IF c = "lt" THEN Ok(TRUE)
        ELSE IF c = "gt" THEN Ok(FALSE)
        ELSE IF Len(A) < Len(B) THEN Ok(TRUE)
        ELSE IF Len(A) > Len(B) THEN Ok(FALSE)
        ELSE Ok(FALSE)

\* CallString.__le__: the lengths are compared first, then the loop
CallString_le(A, B) ==
    IF Len(A) < Len(B) THEN Ok(TRUE)
    ELSE IF Len(A) > Len(B) THEN Ok(FALSE)
    ELSE LET c == ZipCompareAddr(A, B, 1)
         IN  IF c = "lt" THEN Ok(TRUE)
             ELSE IF c = "gt" THEN Ok(FALSE)
             ELSE Ok(TRUE)

\* CallString.__gt__: `other < self`
CallString_gt(A, B) == CallString_lt(B, A)

----------------------------------------------------------------------------
(* Variables and their uses (vars.py, live_vars.py). *)

\* number of distinct variables in the live sets drawn as inputs
MaxVar == 2

Register(offset, size) == [kind |-> "Register", offset |-> offset, size |-> size]

CodeLocation(block_addr, stmt_idx) == <<block_addr, stmt_idx>>

VarUse(var, codeloc) == [var |-> var, codeloc |-> codeloc]

\* the variables and uses of tests/mock_nodes.py: one-byte registers, one use
\* of each
Vars == {Register(0 - o, 1) : o \in 0..(MaxVar - 1)}

Uses == {VarUse(v, CodeLocation(0, 0)) : v \in Vars}

----------------------------------------------------------------------------
(* Qualified live sets (live_vars.py). *)

QualifiedLiveSet(ctx, uses) == [ctx |-> ctx, uses |-> uses]

QualifiedLiveSets == {QualifiedLiveSet(c, u) : c \in CallStrings, u \in SUBSET Uses}

\* QualifiedLiveSet(CallString()): no uses, the empty context
EmptyLiveSet == QualifiedLiveSet(<< >>, {})

\* QualifiedLiveSet.gen_uses(*uses): `self.uses |= set(uses)`; the object
\* after the call
QualifiedLiveSet_gen_uses(q, uses) == [q EXCEPT !.uses = @ \cup uses]

\* a kill that empties the live set
QualifiedLiveSet_clear(q, vs) == [q EXCEPT !.uses = {}]

\* QualifiedLiveSet.kill_vars(*vars): `self.uses = set(u for u in self.uses
\* if u.var not in vars)`; the object after the call
QualifiedLiveSet_kill_vars(q, vs) == [q EXCEPT !.uses = {u \in @ : u.var \notin vs}]

\* QualifiedLiveSet.can_represent: `self.uses == other.uses and
\* self.ctx.can_represent(other.ctx)`; `and` does not evaluate its right side
\* when the uses differ
QualifiedLiveSet_can_represent(a, b) ==
    IF a.uses # b.uses THEN Ok(FALSE) ELSE CallString_can_represent(a.ctx, b.ctx)

\* QualifiedLiveSet.__eq__ and __hash__ read self.vars; the class has
\* __slots__ = ['uses', 'ctx'], so the attribute lookup raises AttributeError.
QualifiedLiveSet_eq(a, b) == Raise("AttributeError")

QualifiedLiveSet_hash(a) == Raise("AttributeError")

\* QualifiedLiveSet.copy calls self.ctx.copy(); CallString has no copy method.
QualifiedLiveSet_copy(a) == Raise("AttributeError")

----------------------------------------------------------------------------
(* The per-node state (live_vars.py).  A LiveVars is the record of its     *)
(* slots; the architecture is the same everywhere and is left out.         *)

LiveVarsObject(fn_addr, livesets, sp, bp) ==
    [fn_addr |-> fn_addr, livesets |-> livesets, sp |-> sp, bp |-> bp]

\* LiveVars.__init__ with livesets=None: the set display
\* `{ QualifiedLiveSet(CallString()) }` hashes its element.
LiveVars_init_default(fn_addr, sp, bp) ==
    LET h == QualifiedLiveSet_hash(QualifiedLiveSet(<< >>, {}))
    IN  IF Raised(h) THEN h
        ELSE Ok(LiveVarsObject(fn_addr, {QualifiedLiveSet(<< >>, {})}, sp, bp))

\* LiveVars.__init__ with livesets given: `self._livesets = set(uses)` reads
\* the name uses, which is neither a parameter nor a global.
LiveVars_init_livesets(fn_addr, livesets, sp, bp) == Raise("NameError")

\* LiveVars.copy: LiveVars(self.arch, self.fn_addr, self._livesets, self.sp, self.bp)
LiveVars_copy(s) == LiveVars_init_livesets(s.fn_addr, s.livesets, s.sp, s.bp)

\* `LiveVars(self.project.arch)`: the call gives no fn_addr, a required
\* positional parameter of __init__.
LiveVars_init_arch_only == Raise("TypeError")

\* LiveVars defines no __or__: operator.or_ on two LiveVars raises TypeError.
LiveVars_or(s, t) == Raise("TypeError")

\* LiveVars defines no __eq__: == is the identity of the two objects.  The
\* model's values carry no identity; same says whether both are one object.
LiveVars_eq(s, t, same) == Ok(same)

\* min(candidates, key=lambda ls: ls.ctx): an element no other element's
\* context is < of (the first such element in iteration order)
MinByCtx(cands) ==
    CHOOSE c \in cands : \A d \in cands : ~CallString_lt(d.ctx, c.ctx).val

\* LiveVars.representative: min consumes the whole generator, so a raising
\* ls.can_represent(liveset) ends the call; default=None for no candidate
LiveVars_representative(s, q) ==
    LET tests == {QualifiedLiveSet_can_represent(l, q) : l \in s.livesets}
        cands == {l \in s.livesets : QualifiedLiveSet_can_represent(l, q) = Ok(TRUE)}
    IN  IF \E t \in tests : Raised(t) THEN CHOOSE t \in tests : Raised(t)
        ELSE IF cands = {} THEN Ok([kind |-> "None"])
        ELSE Ok(MinByCtx(cands))

\* one element of the generator of represented_by: the filter
\* `liveset.ctx.can_represent(ls.ctx)`, then `liveset.copy()` inside
\* QualifiedLiveSet(liveset.copy(), ls.ctx); "skip" when the filter is False
represented_by_element(q, l) ==
    LET t == CallString_can_represent(q.ctx, l.ctx)
    IN  IF Raised(t) THEN t
        ELSE IF ~t.val THEN Ok("skip")
        ELSE Bind(QualifiedLiveSet_copy(q), LAMBDA c : Ok(QualifiedLiveSet(c, l.ctx)))

\* LiveVars.represented_by: the outcomes the iteration order of the set
\* self._livesets allows; the first raising element ends the call
LiveVars_represented_by(s, q) ==
    LET elems == {represented_by_element(q, l) : l \in s.livesets}
    IN  IF \E e \in elems : Raised(e) THEN {e \in elems : Raised(e)}
        ELSE {Ok({e.val : e \in {f \in elems : f.val # "skip"}})}

\* the live sets of a state have pairwise distinct contexts
DistinctContexts(s) ==
    \A q1 \in s.livesets, q2 \in s.livesets : q1 # q2 => q1.ctx # q2.ctx

\* the states drawn as inputs: one qualified live set, or two with distinct
\* contexts
SingletonStates == {LiveVarsObject(1, {q}, 0, 0) : q \in QualifiedLiveSets}

----------------------------------------------------------------------------
(* The IR consumed from the lifter, and the architecture descriptor.       *)

\* the AMD64 register file offsets used by the test suite (archinfo)
amd64 == [kind |-> "Arch", sp_offset |-> 48, bp_offset |-> 56, ip_offset |-> 184]

\* `arch=None`, the default of the arch parameter of the live_vars functions
NoArch == [kind |-> "None", sp_offset |-> 0, bp_offset |-> 0, ip_offset |-> 0]

\* reading an attribute of the arch argument
ArchAttr(arch, v) == IF arch.kind = "None" THEN Raise("AttributeError") ELSE Ok(v)

rax == 16

rbx == 40

Const(v, ty) == [kind |-> "Const", value |-> v, ty |-> ty]

Get(offset, ty) == [kind |-> "Get", offset |-> offset, ty |-> ty]

RdTmp(tmp) == [kind |-> "RdTmp", tmp |-> tmp]

Load(ty, addr) == [kind |-> "Load", ty |-> ty, addr |-> addr]

Binop(o, a, b) == [kind |-> "Binop", op |-> o, args |-> <<a, b>>]

\* GetI(descr, ix, bias): a read of the register array at the index ix
GetI(ix) == [kind |-> "GetI", ix |-> ix]

\* a pyvex.const.IRConst: the bare constant the lifter stores as the dst of
\* an Exit, not wrapped in an IRExpr.Const
IRConst(v) == [kind |-> "IRConst", value |-> v]

IMark(addr) == [kind |-> "IMark", addr |-> addr]

WrTmp(tmp, data) == [kind |-> "WrTmp", tmp |-> tmp, data |-> data]

Put(data, offset) == [kind |-> "Put", data |-> data, offset |-> offset]

Store(addr, data) == [kind |-> "Store", addr |-> addr, data |-> data]

Exit(guard, dst, jk) == [kind |-> "Exit", guard |-> guard, dst |-> dst, jk |-> jk]

NoOp == [kind |-> "NoOp"]

Block(addr, statements, next, jumpkind) ==
    [addr |-> addr, statements |-> statements, next |-> next, jumpkind |-> jumpkind]

NoneValue == [kind |-> "None"]

\* pyvex.const.get_type_size, in bits
get_type_size(ty) ==
    IF ty = "Ity_I64" THEN 64 ELSE IF ty = "Ity_I32" THEN 32
    ELSE IF ty = "Ity_I16" THEN 16 ELSE 8

\* vars.get_type_size_bytes
get_type_size_bytes(ty) == get_type_size(ty) \div 8

\* the result type of an expression of the IR above
RECURSIVE result_type(_)
result_type(e) ==
    IF e.kind \in {"Const", "Get", "Load"} THEN e.ty
    ELSE IF e.kind = "Binop" THEN result_type(e.args[1])
    ELSE "Ity_I64"

StackVar(fn_addr, offset, size) ==
    [kind |-> "StackVar", fn_addr |-> fn_addr, offset |-> offset, size |-> size]

MemoryLocation(addr, size) == [kind |-> "MemoryLocation", addr |-> addr, size |-> size]

----------------------------------------------------------------------------
(* Execution contexts (context.py) and stack-address recognition (vars.py) *)

ExecutionCtx(fn, sp, bp, callstring) ==
    [fn |-> fn, sp |-> sp, bp |-> bp, callstring |-> callstring]

\* ExecutionCtx has the properties fn, stack_ptr, base_ptr and callstring;
\* reading ctx.fn_addr raises AttributeError.
ExecutionCtx_fn_addr(ctx) == Raise("AttributeError")

\* LiveVars.execution_ctx: ExecutionCtx(self.fn_addr, self.sp, self.bp) gives
\* no callstring, a required positional parameter.
LiveVars_execution_ctx(s) == Raise("TypeError")

\* StackVar(ctx.fn_addr, offset, size): the arguments are evaluated first
NewStackVar(ctx, offset, size) ==
    Bind(ExecutionCtx_fn_addr(ctx), LAMBDA f : Ok(StackVar(f, offset, size)))

AddOps == {"Iop_Add8", "Iop_Add16", "Iop_Add32", "Iop_Add64"}

SubOps == {"Iop_Sub8", "Iop_Sub16", "Iop_Sub32", "Iop_Sub64"}

\* vars.stack_var: the StackVar of an address that is the stack or base
\* pointer plus or minus a constant, NoneValue for any other address and
\* when no arch is given
stack_var(addr, ctx, arch, ty) ==
    IF arch.kind = "None" THEN Ok(NoneValue)
    ELSE IF addr.kind = "Get" THEN
        IF addr.offset = arch.sp_offset
        THEN NewStackVar(ctx, ctx.sp, get_type_size_bytes(ty))
        ELSE IF addr.offset = arch.bp_offset
        THEN NewStackVar(ctx, ctx.bp, get_type_size_bytes(ty))
        ELSE Ok(NoneValue)
    ELSE IF addr.kind = "Binop" THEN
        IF ~(\E i \in 1..2 : addr.args[i].kind = "Get") THEN Ok(NoneValue)
        ELSE IF ~(\E i \in 1..2 : addr.args[i].kind = "Const") THEN Ok(NoneValue)
        ELSE IF addr.op \notin (AddOps \cup SubOps) THEN Ok(NoneValue)
        ELSE LET reg    == IF addr.args[1].kind = "Get" THEN addr.args[1] ELSE addr.args[2]
                 offset == IF addr.args[1].kind = "Get" THEN addr.args[2] ELSE addr.args[1]
                 apply(p) == IF addr.op \in AddOps THEN p + offset.value ELSE p - offset.value
             IN  IF reg.offset = arch.sp_offset
                 THEN NewStackVar(ctx, apply(ctx.sp), get_type_size_bytes(ty))
                 ELSE IF reg.offset = arch.bp_offset
                 THEN NewStackVar(ctx, apply(ctx.bp), get_type_size_bytes(ty))
                 ELSE Ok(NoneValue)
    ELSE Ok(NoneValue)

\* vars.memory_location
memory_location(addr, ctx, arch, ty) ==
    Bind(stack_var(addr, ctx, arch, ty), LAMBDA mb_stack_var :
        IF mb_stack_var.kind # "None" THEN Ok(mb_stack_var)
        ELSE Ok(MemoryLocation(addr, get_type_size_bytes(ty))))

----------------------------------------------------------------------------
(* Used and modified variables (live_vars.py). *)

\* live_vars.vars_used_expr; the test of a Get reads arch.sp_offset
RECURSIVE vars_used_expr(_, _, _)
vars_used_expr(expr, ctx, arch) ==
    IF expr.kind = "Get" THEN
        Bind(ArchAttr(arch, {arch.sp_offset, arch.bp_offset}), LAMBDA pointers :
            IF expr.offset \notin pointers
            THEN Ok({Register(expr.offset, get_type_size_bytes(expr.ty))})
            ELSE Ok({}))
    ELSE IF expr.kind = "Load" THEN
        Bind(memory_location(expr.addr, ctx, arch, expr.ty), LAMBDA m :
        Bind(vars_used_expr(expr.addr, ctx, arch), LAMBDA r : Ok({m} \cup r)))
    ELSE IF expr.kind = "Binop" THEN
        Bind(vars_used_expr(expr.args[1], ctx, arch), LAMBDA r1 :
        Bind(vars_used_expr(expr.args[2], ctx, arch), LAMBDA r2 : Ok(r1 \cup r2)))
    ELSE Ok({})

\* live_vars.vars_used
vars_used(stmt, ctx, arch) ==
    IF stmt.kind = "Put" THEN vars_used_expr(stmt.data, ctx, arch)
    ELSE IF stmt.kind = "Store" THEN
        Bind(vars_used_expr(stmt.addr, ctx, arch), LAMBDA a :
        Bind(vars_used_expr(stmt.data, ctx, arch), LAMBDA d : Ok(a \cup d)))
    ELSE Ok({})

\* vars_modified with the instruction pointer left out of the exclusion
vars_modified_no_ip(stmt, ctx, arch) ==
    IF stmt.kind = "Put" THEN
        IF arch.kind = "None" \/ stmt.offset \notin {arch.sp_offset, arch.bp_offset}
        THEN Ok({Register(stmt.offset, get_type_size_bytes(result_type(stmt.data)))})
        ELSE Ok({})
    ELSE IF stmt.kind = "Store" THEN
        Bind(memory_location(stmt.addr, ctx, arch, result_type(stmt.data)),
             LAMBDA m : Ok({m}))
    ELSE Ok({})

\* live_vars.vars_modified
vars_modified(stmt, ctx, arch) ==
    IF stmt.kind = "Put" THEN
        IF arch.kind = "None"
           \/ stmt.offset \notin {arch.sp_offset, arch.bp_offset, arch.ip_offset}
        THEN Ok({Register(stmt.offset, get_type_size_bytes(result_type(stmt.data)))})
        ELSE Ok({})
    ELSE IF stmt.kind = "Store" THEN
        Bind(memory_location(stmt.addr, ctx, arch, result_type(stmt.data)),
             LAMBDA m : Ok({m}))
    ELSE Ok({})

----------------------------------------------------------------------------
(* The block transfer engine (engine.py). *)

\* engine.replace_tmps; tmps is a function from the bound tmp indices
RECURSIVE replace_tmps(_, _)
replace_tmps(expr, tmps) ==
    IF expr.kind = "RdTmp" THEN
        IF expr.tmp \notin DOMAIN tmps THEN expr
        ELSE replace_tmps(tmps[expr.tmp], tmps)
    ELSE IF expr.kind = "Binop" THEN
        Binop(expr.op, replace_tmps(expr.args[1], tmps), replace_tmps(expr.args[2], tmps))
    ELSE IF expr.kind = "Load" THEN Load(expr.ty, replace_tmps(expr.addr, tmps))
    ELSE expr

\* engine.replace_tmps_stmt
replace_tmps_stmt(stmt, tmps) ==
    IF stmt.kind = "Put" THEN Put(replace_tmps(stmt.data, tmps), stmt.offset)
    ELSE IF stmt.kind = "WrTmp" THEN NoOp
    ELSE IF stmt.kind = "Store"
         THEN Store(replace_tmps(stmt.addr, tmps), replace_tmps(stmt.data, tmps))
    ELSE IF stmt.kind = "Exit"
         THEN Exit(replace_tmps(stmt.guard, tmps), replace_tmps(stmt.dst, tmps), stmt.jk)
    ELSE stmt

IndirectJumpKinds == {"Ijk_Boring", "Ijk_Call"}

\* engine.is_indirect_jump on a block: the target expression, or NoneValue
is_indirect_jump_block(block) ==
    IF block.jumpkind \notin IndirectJumpKinds THEN NoneValue
    ELSE IF block.next.kind # "Const" THEN block.next
    ELSE NoneValue

\* engine.is_indirect_jump on a statement
is_indirect_jump_stmt(stmt) ==
    IF stmt.kind # "Exit" THEN NoneValue
    ELSE IF stmt.jk \notin IndirectJumpKinds THEN NoneValue
    ELSE IF stmt.dst.kind # "Const" THEN stmt.dst
    ELSE NoneValue

\* SimEngineSJRVEX._preprocess_block: the tmp bindings after the first i
\* statements, read in forward order
RECURSIVE preprocess_block(_, _)
preprocess_block(block, i) ==
    IF i = 0 THEN << >>
    ELSE LET tmps == preprocess_block(block, i - 1)
             stmt == block.statements[i]
         IN  IF stmt.kind = "WrTmp"
             THEN (stmt.tmp :> replace_tmps(stmt.data, tmps)) @@ tmps
             ELSE tmps

\* `vars_used_expr(self.block.vex.next)`: the call gives no ctx, a required
\* positional parameter of vars_used_expr.
vars_used_expr_no_ctx(expr) == Raise("TypeError")

\* LiveVars has no method gen_uses, kill_vars or gen_uses_if_live: the
\* attribute lookup on self.state raises AttributeError.
LiveVars_gen_uses(s, uses) == Raise("AttributeError")

LiveVars_kill_vars(s, vs) == Raise("AttributeError")

LiveVars_gen_uses_if_live(s, uses, if_live) == Raise("AttributeError")

\* self.state.arch: every state is built for the amd64 of the test suite
LiveVars_arch(s) == amd64

\* the statements of _handle_Stmt after the tmp substitution
handle_replaced(state, st) ==
    Bind(LiveVars_execution_ctx(state), LAMBDA ctx :
    Bind(vars_used(st, ctx, LiveVars_arch(state)), LAMBDA used :
    Bind(LiveVars_execution_ctx(state), LAMBDA ctx2 :
    Bind(vars_modified(st, ctx2, LiveVars_arch(state)), LAMBDA modified :
    Bind(LiveVars_kill_vars(state, modified), LAMBDA killed :
        IF is_indirect_jump_stmt(st).kind # "None"
        THEN LiveVars_gen_uses(killed, used)
        ELSE LiveVars_gen_uses_if_live(killed, used, modified))))))

\* SimEngineSJRVEX._handle_Stmt: the state after the statement
handle_Stmt(state, stmt, tmps) == handle_replaced(state, replace_tmps_stmt(stmt, tmps))

\* the loop of _process_Stmt over the statements in reverse order, from
\* statement i down to the first; WrTmp statements are skipped
RECURSIVE process_Stmt_loop(_, _, _, _)
process_Stmt_loop(state, block, tmps, i) ==
    IF i = 0 THEN Ok(state)
    ELSE Bind(IF block.statements[i].kind = "WrTmp" THEN Ok(state)
              ELSE handle_Stmt(state, block.statements[i], tmps),
              LAMBDA r : process_Stmt_loop(r, block, tmps, i - 1))

\* the head of _process_Stmt: the uses of the target of a block that ends
\* in an indirect jump are generated before the statements are read
gen_block_target(state, block) ==
    IF is_indirect_jump_block(block).kind # "None"
    THEN Bind(vars_used_expr_no_ctx(block.next), LAMBDA target_vars :
              LiveVars_gen_uses(state, target_vars))
    ELSE Ok(state)

\* SimEngineSJRVEX._process_Stmt
process_Stmt(state, block) ==
    Bind(gen_block_target(state, block), LAMBDA at_end :
        process_Stmt_loop(at_end, block,
                          preprocess_block(block, Len(block.statements)),
                          Len(block.statements)))

\* a block whose bytes the lifter rejects: reading block.vex raises
BlockUnlifted == Block(5, << >>, NoneValue, "unlifted")

\* block.vex: the lifted IR of the block, or the lifter's SimEngineError
vex(block) ==
    IF block.jumpkind = "unlifted" THEN Raise("SimEngineError") ELSE Ok(block)

\* type(new_state) is LiveVars
IsLiveVars(s) == "livesets" \in DOMAIN s

\* SimEngineLightVEXMixin._process, reached through super(): the state is
\* installed as self.state, block.vex is read, _process_Stmt runs
mixin_process(new_state, block) ==
    Bind(vex(block), LAMBDA irsb : process_Stmt(new_state, irsb))

\* SimEngineSJRVEX._process: the message of the TypeError for a state that
\* is not a LiveVars is built from `live_defs`, a name bound nowhere, so the
\* raise statement ends in NameError
inner_process(new_state, block) ==
    IF ~IsLiveVars(new_state) THEN Raise("NameError")
    ELSE mixin_process(new_state, block)

\* SimEngineSJRVEX.process: only a SimEngineError is caught, and raised again
\* when fail_fast is set; every other exception leaves the call.  The value
\* returned is self.state: the processed state, or the state installed
\* before the error.
process(state, block, fail_fast) ==
    LET r == inner_process(state, block)
    IN  IF Raised(r) /\ r.val = "SimEngineError" /\ ~fail_fast THEN Ok(state) ELSE r

----------------------------------------------------------------------------
(* The driver's hooks (static_jump_resolution.py). *)

\* _initial_abstract_state
initial_abstract_state(node) == LiveVars_init_arch_only

\* _run_on_node: the copy comes first; the engine processes the block of a
\* node that is neither a dummy node nor a simprocedure (block is node.block);
\* the pair returned is (None, state)
run_on_node(node, block, state) ==
    Bind(LiveVars_copy(state), LAMBDA c :
        IF node.kind # "DummyNode" /\ ~node.is_simprocedure
        THEN Bind(process(c, block, FALSE), LAMBDA processed : Ok(<<NoneValue, processed>>))
        ELSE Ok(<<NoneValue, c>>))

\* the LiveVars object handed to _run_on_node, as it is when the call ends.
\* The parameter is rebound to the copy before anything is written; the copy
\* is shallow (a new set of the same QualifiedLiveSet objects), and gen_uses
\* and kill_vars write into those objects, so what the engine does to the
\* live sets of the copy shows in the argument.
run_on_node_argument(node, block, state) ==
    LET c == LiveVars_copy(state)
        p == process(c.val, block, FALSE)
    IN  IF Raised(c) THEN state
        ELSE IF node.kind # "DummyNode" /\ ~node.is_simprocedure /\ IsOk(p)
             THEN [state EXCEPT !.livesets = p.val.livesets]
        ELSE state

\* functools.reduce(operator.or_, states, initial) from position i on
RECURSIVE ReduceOr(_, _, _)
ReduceOr(acc, states, i) ==
    IF i > Len(states) THEN Ok(acc)
    ELSE Bind(LiveVars_or(acc, states[i]), LAMBDA r : ReduceOr(r, states, i + 1))

\* _merge_states(node, *states): stored is the sequence holding the state
\* self._state_map has for the node, empty when it has none.  The default
\* argument of dict.get is evaluated before the lookup.
merge_states(node, stored, states) ==
    Bind(LiveVars_init_arch_only, LAMBDA dflt :
    Bind(LiveVars_init_arch_only, LAMBDA init :
    Bind(ReduceOr(init, states, 1), LAMBDA merged :
    Bind(LiveVars_eq(merged, IF Len(stored) > 0 THEN stored[1] ELSE dflt, FALSE),
         LAMBDA same :
            IF same THEN Ok(<<IF Len(stored) > 0 THEN stored[1] ELSE dflt, TRUE>>)
            ELSE Ok(<<merged, FALSE>>)))))

----------------------------------------------------------------------------
(* The worklist (supergraph/__init__.py).  A Worklist is the record of its *)
(* slots; a call yields its outcome and the worklist it leaves behind.     *)

Directions == {"forward", "backward"}

\* Worklist.__init__ with nodes=None, and Worklist.clear
Worklist(direction) ==
    [direction |-> direction, intra |-> << >>, fn_boundary |-> << >>,
     call |-> << >>, ret |-> << >>]

\* node_is_entry and node_is_exit test `type(node) is CFGNode`; the module
\* imports no CFGNode, so the name lookup raises NameError.
node_is_entry(node) == Raise("NameError")

node_is_exit(node) == Raise("NameError")

node_is_call(node) == Ok(node.kind = "DummyNode" /\ node.dummy_type = "Dummy_Call")

node_is_ret(node) == Ok(node.kind = "DummyNode" /\ node.dummy_type = "Dummy_Ret")

\* In Worklist.add(self, node) every test and every append names n, not the
\* parameter node; n is no local and no global of the module.
UnboundName_n == Raise("NameError")

\* Worklist.add
Worklist_add(w, node) ==
    LET n == UnboundName_n
    IN  IF Raised(n) THEN [out |-> n, wl |-> w]
        ELSE LET entry == node_is_entry(n.val)
                 exit  == node_is_exit(n.val)
                 fwd   == w.direction = "forward"
             IN  IF Raised(entry) THEN [out |-> entry, wl |-> w]
                 ELSE IF entry.val
                      THEN [out |-> Ok(NoneNode),
                            wl |-> IF fwd THEN [w EXCEPT !.intra = Append(@, n.val)]
                                   ELSE [w EXCEPT !.fn_boundary = Append(@, n.val)]]
                 ELSE IF Raised(exit) THEN [out |-> exit, wl |-> w]
                 ELSE IF exit.val
                      THEN [out |-> Ok(NoneNode),
                            wl |-> IF fwd THEN [w EXCEPT !.fn_boundary = Append(@, n.val)]
                                   ELSE [w EXCEPT !.intra = Append(@, n.val)]]
                 ELSE IF node_is_call(n.val).val
                      THEN [out |-> Ok(NoneNode), wl |-> [w EXCEPT !.call = Append(@, n.val)]]
                 ELSE IF node_is_ret(n.val).val
                      THEN [out |-> Ok(NoneNode), wl |-> [w EXCEPT !.ret = Append(@, n.val)]]
                 ELSE [out |-> Ok(NoneNode), wl |-> [w EXCEPT !.intra = Append(@, n.val)]]

Last(l) == l[Len(l)]

ButLast(l) == SubSeq(l, 1, Len(l) - 1)

\* Worklist.next_node; list.pop() takes the last element
Worklist_next_node(w) ==
    IF Len(w.intra) > 0
    THEN [out |-> Ok(Last(w.intra)), wl |-> [w EXCEPT !.intra = ButLast(@)]]
    ELSE IF Len(w.fn_boundary) > 0
    THEN [out |-> Ok(Last(w.fn_boundary)), wl |-> [w EXCEPT !.fn_boundary = ButLast(@)]]
    ELSE IF w.direction = "forward" THEN
        IF Len(w.call) > 0
        THEN [out |-> Ok(Last(w.call)), wl |-> [w EXCEPT !.call = ButLast(@)]]
        ELSE IF Len(w.ret) > 0
        THEN [out |-> Ok(Last(w.ret)), wl |-> [w EXCEPT !.ret = ButLast(@)]]
        ELSE [out |-> Ok(NoneNode), wl |-> w]
    ELSE
        IF Len(w.ret) > 0
        THEN [out |-> Ok(Last(w.ret)), wl |-> [w EXCEPT !.ret = ButLast(@)]]
        ELSE IF Len(w.call) > 0
        THEN [out |-> Ok(Last(w.call)), wl |-> [w EXCEPT !.call = ButLast(@)]]
        ELSE [out |-> Ok(NoneNode), wl |-> w]

\* Worklist.__len__
Worklist_len(w) == Len(w.intra) + Len(w.fn_boundary) + Len(w.call) + Len(w.ret)

\* Worklist.has_next
Worklist_has_next(w) == Worklist_len(w) > 0

\* `self.next()`: Worklist defines next_node and no method next, so the
\* attribute lookup raises AttributeError.
Worklist_next(w) == Raise("AttributeError")

\* `supergraph.get_successors(n)` and `supergraph.get_predecessors(n)`: the
\* supergraph is a networkx.DiGraph, which has successors and predecessors
\* and neither of these methods.
DiGraph_get_successors(g, n) == Raise("AttributeError")

DiGraph_get_predecessors(g, n) == Raise("AttributeError")

\* `s not in visited` and `visited.add(s)` hash the node
node_hash(n) == IF n.kind = "DummyNode" THEN DummyNode_hash(n) ELSE Ok(n.addr)

\* the loop `for s in succs: if s not in visited: visited.add(s);
\* self.add(s)` of exhaust, from position i on
RECURSIVE exhaust_add(_, _, _, _)
exhaust_add(w, succs, visited, i) ==
    IF i > Len(succs) THEN Ok([wl |-> w, visited |-> visited])
    ELSE Bind(node_hash(succs[i]), LAMBDA h :
            IF succs[i] \in visited THEN exhaust_add(w, succs, visited, i + 1)
            ELSE Bind(Worklist_add(w, succs[i]).out, LAMBDA none :
                    exhaust_add(Worklist_add(w, succs[i]).wl, succs,
                                visited \cup {succs[i]}, i + 1)))

\* one pass of the while loop of Worklist.exhaust, up to its yield: the node
\* yielded, the worklist and the visited set
exhaust_iteration(w, g, visited) ==
    Bind(Worklist_next(w), LAMBDA n :
    Bind(IF w.direction = "forward" THEN DiGraph_get_successors(g, n.node)
         ELSE DiGraph_get_predecessors(g, n.node), LAMBDA succs :
    Bind(exhaust_add(n.wl, succs, visited, 1), LAMBDA r :
        Ok([node |-> n.node, wl |-> r.wl, visited |-> r.visited]))))

\* no generator has been created
NoGenerator ==
    [status |-> "none", graph |-> [nodes |-> {}, edges |-> {}],
     visited |-> {}, yielded |-> << >>]

----------------------------------------------------------------------------
(* The supergraph builder (supergraph/supergraph.py) and the visitor       *)
(* (supergraph/__init__.py).  A graph is its nodes and its edges           *)
(* <<source node, destination node, jumpkind>>.                            *)

\* networkx add_nodes_from hashes each node to add it; a CFG node hashes,
\* a DummyNode does not
graph_add_dummy_nodes(g, callnode, retnode) ==
    Bind(DummyNode_hash(callnode), LAMBDA h :
        Ok([g EXCEPT !.nodes = @ \cup {callnode, retnode}]))

\* networkx add_edge: a DiGraph holds one edge per pair of nodes, and adding
\* the pair again replaces its jumpkind
add_edge(edges, u, v, jk) == {e \in edges : ~(e[1] = u /\ e[2] = v)} \cup {<<u, v, jk>>}

RECURSIVE add_edges(_, _)
add_edges(edges, new) ==
    IF new = {} THEN edges
    ELSE LET e == CHOOSE x \in new : TRUE
         IN  add_edges(add_edge(edges, e[1], e[2], e[3]), new \ {e})

\* cfg.model.get_successors(n, jumpkind=jk)
get_successors(cfg, n, jk) == {e[2] : e \in {x \in cfg.edges : x[1] = n /\ x[3] = jk}}

\* fn_rets[addr]: the nodes of the function that return or are simprocedures
fn_rets(cfg, addr) ==
    {n \in cfg.nodes : n.function_address = addr /\ (n.has_return \/ n.is_simprocedure)}

\* the edges the loop adds for a block ending in a call, once its dummy
\* nodes are in the graph
call_block_edges(cfg, n) ==
    LET callnode == DummyNode(n.addr, "Dummy_Call")
        retnode  == DummyNode(n.addr, "Dummy_Ret")
        call_targets == get_successors(cfg, n, "Ijk_Call")
        ret_targets  == get_successors(cfg, n, "Ijk_FakeRet")
    IN  {<<n, callnode, "Ijk_Boring">>}
        \cup {<<retnode, t, "Ijk_Boring">> : t \in ret_targets}
        \cup {<<callnode, t, "Ijk_Call">> : t \in call_targets}
        \cup UNION {{<<r, retnode, "Ijk_Ret">> : r \in fn_rets(cfg, t.function_address)} :
                        t \in call_targets}

\* one turn of the loop `for n in supergraph.nodes` that adds the edges
node_edges(cfg, g, n) ==
    IF n.is_simprocedure THEN Ok(g)
    ELSE IF n.jumpkind = "Ijk_Call"
    THEN Bind(graph_add_dummy_nodes(g, DummyNode(n.addr, "Dummy_Call"),
                                    DummyNode(n.addr, "Dummy_Ret")),
              LAMBDA g1 : Ok([g1 EXCEPT !.edges = add_edges(@, call_block_edges(cfg, n))]))
    ELSE Ok([g EXCEPT !.edges =
                add_edges(@, {e \in cfg.edges : e[1] = n /\ e[3] # "Ijk_Ret"})])

\* the loop over the nodes still to visit, in address order
RECURSIVE supergraph_loop(_, _, _)
supergraph_loop(cfg, g, todo) ==
    IF todo = {} THEN Ok(g)
    ELSE Bind(node_edges(cfg, g, CHOOSE c \in todo : \A d \in todo : c.addr <= d.addr),
              LAMBDA g1 : supergraph_loop(cfg, g1,
                    todo \ {CHOOSE c \in todo : \A d \in todo : c.addr <= d.addr}))

\* supergraph_from_cfg
supergraph_from_cfg(cfg) ==
    supergraph_loop(cfg, [nodes |-> cfg.nodes, edges |-> {}], cfg.nodes)

\* SupergraphVisitor.startpoints reads self._start_points, which no method
\* assigns (_find_startpoints is never called and stores nothing).
SupergraphVisitor_startpoints == Raise("AttributeError")

----------------------------------------------------------------------------
(* Blocks and states drawn as inputs of the engine and of the hooks.       *)

\* a block with no indirect jump: `xor eax,eax; ret`
BlockNoJump ==
    Block(1, <<IMark(1), Put(Const(0, "Ity_I64"), rax)>>, Const(9, "Ity_I64"), "Ijk_Ret")

\* a block ending in an indirect jump through a tmp: `jmp rax`
BlockJumpNext ==
    Block(2, <<IMark(2), WrTmp(0, Get(rax, "Ity_I64"))>>, RdTmp(0), "Ijk_Boring")

\* a block with a conditional indirect exit: target loaded from [rbx]
BlockJumpExit ==
    Block(3, <<IMark(3), WrTmp(0, Load("Ity_I64", Get(rbx, "Ity_I64"))),
               Exit(Const(1, "Ity_I32"), RdTmp(0), "Ijk_Boring")>>,
          Const(9, "Ity_I64"), "Ijk_Boring")

\* a block of tmp definitions only
BlockTmpsOnly ==
    Block(4, <<WrTmp(0, Get(rax, "Ity_I64"))>>, Const(9, "Ity_I64"), "Ijk_Boring")

Blocks == {BlockNoJump, BlockJumpNext, BlockJumpExit, BlockTmpsOnly}

\* node.block
block_of(node) ==
    IF node.addr = 2 THEN BlockJumpNext
    ELSE IF node.addr = 3 THEN BlockJumpExit
    ELSE IF node.addr = 4 THEN BlockTmpsOnly
    ELSE BlockNoJump

\* the indirect-jump targets of a block: its `next` and the dst of its Exit
\* statements, when is_indirect_jump recognises them
JumpTargets(block) ==
    {is_indirect_jump_block(block)}
    \cup {is_indirect_jump_stmt(block.statements[i]) : i \in 1..Len(block.statements)}

\* the variables the tmp-substituted targets of the block read, in the
\* execution context of state s
TargetVars(block, s) ==
    LET tmps == preprocess_block(block, Len(block.statements))
        ctx  == ExecutionCtx(s.fn_addr, s.sp, s.bp, << >>)
    IN  UNION {vars_used_expr(replace_tmps(t, tmps), ctx, amd64).val :
                    t \in {u \in JumpTargets(block) : u.kind # "None"}}

HasJumpSite(block) == \E t \in JumpTargets(block) : t.kind # "None"

\* the variables with a use in the qualified live set q
LiveVarsOf(q) == {u.var : u \in q.uses}

HookNodes == CFGNodes \cup DummyNodes

----------------------------------------------------------------------------
(* Calls on the units.  Each action makes one call with arguments drawn    *)
(* from the bounded sets and records the call and its outcome.             *)

NoRun == [pc |-> "idle", cfg |-> [nodes |-> {}, edges |-> {}],
          supergraph |-> [nodes |-> {}, edges |-> {}], err |-> "none"]

\* a run makes one call on a function or a hook, or a sequence of calls on
\* one worklist
WorklistOps == {"none", "Worklist", "Worklist.add", "Worklist.next_node"}

Call_CallString_can_represent ==
    \E A \in CallStrings, B \in CallStrings :
        /\ op = "none"
        /\ op' = "CallString.can_represent"
        /\ args' = <<A, B>>
        /\ out' = CallString_can_represent(A, B)
        /\ UNCHANGED <<wl, drv, cs, ls, gen>>

Call_CallString_lt ==
    \E A \in CallStrings, B \in CallStrings :
        /\ op = "none"
        /\ op' = "CallString.__lt__"
        /\ args' = <<A, B>>
        /\ out' = CallString_lt(A, B)
        /\ UNCHANGED <<wl, drv, cs, ls, gen>>

Call_CallString_le ==
    \E A \in CallStrings, B \in CallStrings :
        /\ op = "none"
        /\ op' = "CallString.__le__"
        /\ args' = <<A, B>>
        /\ out' = CallString_le(A, B)
        /\ UNCHANGED <<wl, drv, cs, ls, gen>>

Call_QualifiedLiveSet_can_represent ==
    \E a \in QualifiedLiveSets, b \in QualifiedLiveSets :
        /\ op = "none"
        /\ op' = "QualifiedLiveSet.can_represent"
        /\ args' = <<a, b>>
        /\ out' = QualifiedLiveSet_can_represent(a, b)
        /\ UNCHANGED <<wl, drv, cs, ls, gen>>

Call_Worklist_init ==
    \E d \in Directions :
        /\ op \in WorklistOps
        /\ op' = "Worklist"
        /\ args' = <<d>>
        /\ out' = Ok(NoneNode)
        /\ wl' = Worklist(d)
        /\ UNCHANGED <<drv, cs, ls, gen>>

Call_Worklist_add ==
    \E node \in HookNodes :
        LET r == Worklist_add(wl, node)
        IN  /\ op \in WorklistOps
            /\ op' = "Worklist.add"
            /\ args' = <<node>>
            /\ out' = r.out
            /\ wl' = r.wl
            /\ UNCHANGED <<drv, cs, ls, gen>>

Call_Worklist_next_node ==
    LET r == Worklist_next_node(wl)
    IN  /\ op \in WorklistOps
        /\ op' = "Worklist.next_node"
        /\ args' = <<wl>>
        /\ out' = r.out
        /\ wl' = r.wl
        /\ UNCHANGED <<drv, cs, ls, gen>>

Call_initial_abstract_state ==
    \E node \in HookNodes :
        /\ op = "none"
        /\ op' = "_initial_abstract_state"
        /\ args' = <<node>>
        /\ out' = initial_abstract_state(node)
        /\ UNCHANGED <<wl, drv, cs, ls, gen>>

Call_run_on_node ==
    \E node \in HookNodes, state \in SingletonStates :
        /\ op = "none"
        /\ op' = "_run_on_node"
        /\ args' = <<node, state, run_on_node_argument(node, block_of(node), state)>>
        /\ out' = run_on_node(node, block_of(node), state)
        /\ UNCHANGED <<wl, drv, cs, ls, gen>>

\* stored is what self._state_map holds for the node: nothing, or one state
Call_merge_states ==
    \E node \in DummyCallNodes, new \in SingletonStates,
       stored \in {<< >>} \cup {<<s>> : s \in SingletonStates} :
        /\ op = "none"
        /\ op' = "_merge_states"
        /\ args' = <<node, stored, <<new>>>>
        /\ out' = merge_states(node, stored, <<new>>)
        /\ UNCHANGED <<wl, drv, cs, ls, gen>>

Call_process ==
    \E state \in SingletonStates, block \in Blocks \cup {BlockUnlifted}, fail_fast \in BOOLEAN :
        /\ op = "none"
        /\ op' = "process"
        /\ args' = <<state, block, fail_fast>>
        /\ out' = process(state, block, fail_fast)
        /\ UNCHANGED <<wl, drv, cs, ls, gen>>

\* process handed a state that is not a LiveVars
Call_process_not_LiveVars ==
    \E state \in {NoneValue, EmptyLiveSet}, block \in {BlockNoJump, BlockUnlifted}, fail_fast \in BOOLEAN :
        /\ op = "none"
        /\ op' = "process_not_LiveVars"
        /\ args' = <<state, block, fail_fast>>
        /\ out' = process(state, block, fail_fast)
        /\ UNCHANGED <<wl, drv, cs, ls, gen>>

Call_CtxRecord_eq ==
    \E r \in SnapshotRecords, s \in SnapshotRecords :
        /\ op = "none"
        /\ op' = "CtxRecord.__eq__"
        /\ args' = <<r, s>>
        /\ out' = CtxRecord_eq(r, s)
        /\ UNCHANGED <<wl, drv, cs, ls, gen>>

Call_CtxRecord_hash ==
    \E r \in SnapshotRecords :
        /\ op = "none"
        /\ op' = "CtxRecord.__hash__"
        /\ args' = <<r>>
        /\ out' = CtxRecord_hash(r)
        /\ UNCHANGED <<wl, drv, cs, ls, gen>>

\* contexts of a recursion: a call site alone and repeated
RecursionContexts ==
    {c \in CallStrings : \A i \in 1..Len(c) : c[i].node.addr <= 2 /\ c[i] = c[1]}

RecursionLiveSets == {QualifiedLiveSet(c, u) : c \in RecursionContexts, u \in SUBSET Uses}

\* states of one or two live sets over the contexts of a recursion
RecursionStates ==
    {LiveVarsObject(1, L, 0, 0) :
        L \in {M \in SUBSET RecursionLiveSets : Cardinality(M) \in {1, 2}}}

Call_LiveVars_representative ==
    \E s \in RecursionStates, q \in RecursionLiveSets :
        /\ op = "none"
        /\ op' = "representative"
        /\ args' = <<s, q>>
        /\ out' = LiveVars_representative(s, q)
        /\ UNCHANGED <<wl, drv, cs, ls, gen>>

Call_LiveVars_represented_by ==
    \E s \in RecursionStates, q \in RecursionLiveSets :
        /\ op = "none"
        /\ op' = "represented_by"
        /\ args' = <<s, q>>
        /\ out' \in LiveVars_represented_by(s, q)
        /\ UNCHANGED <<wl, drv, cs, ls, gen>>

\* a block in SSA form whose tmps are defined from earlier tmps: a register
\* read, a sum, a load through the sum, an indexed register read
BlockTmpChain ==
    Block(6, <<IMark(6),
               WrTmp(0, Get(rax, "Ity_I64")),
               WrTmp(1, Binop("Iop_Add64", RdTmp(0), Const(8, "Ity_I64"))),
               WrTmp(2, Load("Ity_I64", RdTmp(1))),
               WrTmp(3, GetI(RdTmp(0)))>>,
          RdTmp(2), "Ijk_Boring")

SSABlocks == {BlockJumpNext, BlockJumpExit, BlockTmpsOnly, BlockTmpChain}

\* the tmps a block defines with WrTmp statements
BoundTmps(block) ==
    {block.statements[i].tmp :
        i \in {j \in 1..Len(block.statements) : block.statements[j].kind = "WrTmp"}}

\* flat expressions over the tmps in T: operands are tmps or constants
FlatExprs(T) ==
    LET atoms == {RdTmp(t) : t \in T} \cup {Const(8, "Ity_I64")}
    IN  atoms \cup {Get(rax, "Ity_I64")}
        \cup {Load("Ity_I64", a) : a \in atoms}
        \cup {Binop("Iop_Add64", a, b) : a \in atoms, b \in atoms}
        \cup {GetI(a) : a \in atoms}

\* the pre-pass over a block, then replace_tmps on an expression of the block
Call_replace_tmps ==
    \E block \in SSABlocks :
        \E expr \in FlatExprs(BoundTmps(block)) :
            /\ op = "none"
            /\ op' = "replace_tmps"
            /\ args' = <<expr, block, preprocess_block(block, Len(block.statements))>>
            /\ out' = Ok(replace_tmps(expr, preprocess_block(block, Len(block.statements))))
            /\ UNCHANGED <<wl, drv, cs, ls, gen>>

\* blocks of every jumpkind with a constant, a tmp and a register as next
JumpBlocks ==
    {Block(7, <<IMark(7)>>, nx, jk) :
        nx \in {Const(9, "Ity_I64"), RdTmp(0), Get(rax, "Ity_I64")}, jk \in JumpKinds}

\* statements: exits of every jumpkind whose dst is a constant expression, a
\* lifted constant or a tmp, and statements of the other types
JumpStmts ==
    {Exit(Const(1, "Ity_I32"), d, jk) :
        d \in {Const(9, "Ity_I64"), IRConst(9), RdTmp(0)}, jk \in JumpKinds}
    \cup {IMark(7), WrTmp(0, Get(rax, "Ity_I64")), Put(RdTmp(0), rax), NoOp}

Call_is_indirect_jump ==
    \E x \in JumpBlocks \cup JumpStmts :
        /\ op = "none"
        /\ op' = "is_indirect_jump"
        /\ args' = <<x>>
        /\ out' = Ok(IF "statements" \in DOMAIN x THEN is_indirect_jump_block(x)
                     ELSE is_indirect_jump_stmt(x))
        /\ UNCHANGED <<wl, drv, cs, ls, gen>>

\* the comparisons A < B, A <= B, A == B and A > B of one pair of call strings
Call_CallString_compare ==
    \E A \in CallStrings, B \in CallStrings :
        /\ op = "none"
        /\ op' = "CallString.compare"
        /\ args' = <<A, B>>
        /\ out' = Ok([lt |-> CallString_lt(A, B), le |-> CallString_le(A, B),
                      eq |-> CallString_eq(A, B), gt |-> CallString_gt(A, B)])
        /\ UNCHANGED <<wl, drv, cs, ls, gen>>

\* statements over the one-byte registers of the live variables: a write of
\* a constant, a write of another register, a store through a register
TransferStmts ==
    {Put(Const(0, "Ity_I8"), v.offset) : v \in Vars}
    \cup {Put(Get(u.offset, "Ity_I8"), v.offset) : u \in Vars, v \in Vars}
    \cup {Store(Get(rax, "Ity_I64"), Get(v.offset, "Ity_I8")) : v \in Vars}

\* _handle_Stmt on a statement that reads no tmp
Call_handle_Stmt ==
    \E state \in SingletonStates, stmt \in TransferStmts :
        /\ op = "none"
        /\ op' = "handle_Stmt"
        /\ args' = <<state, stmt>>
        /\ out' = handle_Stmt(state, stmt, << >>)
        /\ UNCHANGED <<wl, drv, cs, ls, gen>>

Init ==
    /\ op = "none"
    /\ args = << >>
    /\ out = Ok(NoneNode)
    /\ wl = Worklist("forward")
    /\ drv = NoRun
    /\ cs = << >>
    /\ ls = EmptyLiveSet
    /\ gen = NoGenerator

Next ==
    \/ Call_CallString_can_represent
    \/ Call_CallString_lt
    \/ Call_CallString_le
    \/ Call_QualifiedLiveSet_can_represent
    \/ Call_Worklist_init
    \/ Call_Worklist_add
    \/ Call_Worklist_next_node
    \/ Call_initial_abstract_state
    \/ Call_run_on_node
    \/ Call_merge_states
    \/ Call_process
    \/ Call_CtxRecord_eq
    \/ Call_CtxRecord_hash
    \/ Call_process_not_LiveVars
    \/ Call_handle_Stmt
    \/ Call_LiveVars_representative
    \/ Call_LiveVars_represented_by
    \/ Call_replace_tmps
    \/ Call_is_indirect_jump
    \/ Call_CallString_compare

Spec == Init /\ [][Next]_vars

----------------------------------------------------------------------------
(* The analysis run: StaticJumpResolutionAnalysis(cfg) builds its          *)
(* SupergraphVisitor, whose constructor builds the supergraph and the      *)
(* worklist and then resets itself; only then would the framework's loop   *)
(* take nodes from the worklist.                                           *)

\* the CFGs drawn as inputs.  Block a ends with jumpkind jk[a] and belongs
\* to the function entered at fn[a]; it returns when it ends in a ret.
CFGNodeOf(a, jk, fn) == CFGNode(a, fn[a], jk[a] = "Ijk_Ret", FALSE, jk[a])

\* the block that follows block a in its function
FallThrough(a, fn) == {b \in Addrs : b = a + 1 /\ fn[b] = fn[a]}

\* the entries of the functions a call in block a may enter
Callees(a, fn) == {t \in Addrs : fn[t] = t /\ t # fn[a]}

\* the blocks control returns to from the function entered at f
ReturnSites(f, jk, fn) ==
    UNION {FallThrough(c, fn) : c \in {x \in Addrs : jk[x] = "Ijk_Call" /\ f \in Callees(x, fn)}}

\* the CFG edges leaving block a, as CFGFast records them
CFGEdgesFrom(a, jk, fn) ==
    LET n == CFGNodeOf(a, jk, fn)
        to(S, k) == {<<n, CFGNodeOf(b, jk, fn), k>> : b \in S}
    IN  IF jk[a] = "Ijk_Call"
        THEN to(Callees(a, fn), "Ijk_Call") \cup to(FallThrough(a, fn), "Ijk_FakeRet")
        ELSE IF jk[a] = "Ijk_Ret" THEN to(ReturnSites(fn[a], jk, fn), "Ijk_Ret")
        ELSE IF jk[a] = "Ijk_Sys_syscall" THEN to(FallThrough(a, fn), "Ijk_FakeRet")
        ELSE to(FallThrough(a, fn), "Ijk_Boring")

FunctionMaps == {fn \in [Addrs -> Addrs] : fn[1] = 1 /\ \A a \in Addrs : fn[a] \in {1, a}}

\* the blocks that may be simprocedures: the one-block functions that return
Hookable(jk, fn) == {a \in Addrs : a # 1 /\ fn[a] = a /\ jk[a] = "Ijk_Ret"}

\* the CFG with the blocks at the addresses of H replaced by simprocedure
\* nodes, which have no block to find a return in
hooked(cfg, H) ==
    LET h(n) == IF n.addr \in H
                THEN [n EXCEPT !.is_simprocedure = TRUE, !.has_return = FALSE]
                ELSE n
    IN  [nodes |-> {h(n) : n \in cfg.nodes},
         edges |-> {<<h(e[1]), h(e[2]), e[3]>> : e \in cfg.edges}]

DriverCFGs ==
    UNION {{hooked([nodes |-> {CFGNodeOf(a, p[1], p[2]) : a \in Addrs},
                    edges |-> UNION {CFGEdgesFrom(a, p[1], p[2]) : a \in Addrs}], H) :
                H \in SUBSET Hookable(p[1], p[2])} :
            p \in [Addrs -> JumpKinds] \X FunctionMaps}

DriverInit ==
    /\ op = "none"
    /\ args = << >>
    /\ out = Ok(NoneNode)
    /\ wl = Worklist("forward")
    /\ cs = << >>
    /\ ls = EmptyLiveSet
    /\ gen = NoGenerator
    /\ \E cfg \in DriverCFGs :
          drv = [pc |-> "SupergraphVisitor", cfg |-> cfg,
                 supergraph |-> [nodes |-> {}, edges |-> {}], err |-> "none"]

\* SupergraphVisitor.__init__ up to its call of reset
SupergraphVisitor_init ==
    /\ drv.pc = "SupergraphVisitor"
    /\ LET g == supergraph_from_cfg(drv.cfg)
       IN  IF Raised(g)
           THEN /\ drv' = [drv EXCEPT !.pc = "raised", !.err = g.val]
                /\ UNCHANGED wl
           ELSE /\ drv' = [drv EXCEPT !.pc = "reset", !.supergraph = g.val]
                /\ wl' = Worklist("forward")
    /\ UNCHANGED <<op, args, out, cs, ls, gen>>

\* SupergraphVisitor.reset: clears the worklist, then adds the start points
SupergraphVisitor_reset ==
    /\ drv.pc = "reset"
    /\ wl' = Worklist(wl.direction)
    /\ LET sp == SupergraphVisitor_startpoints
       IN  IF Raised(sp)
           THEN drv' = [drv EXCEPT !.pc = "raised", !.err = sp.val]
           ELSE drv' = [drv EXCEPT !.pc = "analyze"]
    /\ UNCHANGED <<op, args, out, cs, ls, gen>>

DriverNext ==
    \/ SupergraphVisitor_init
    \/ SupergraphVisitor_reset

\* the run is one thread of control: a step that can be taken is taken
DriverSpec == DriverInit /\ [][DriverNext]_vars /\ WF_vars(DriverNext)

\* the driver has stopped with an empty worklist and every node at fixpoint
DriverAtFixpoint ==
    /\ drv.pc = "done"
    /\ Len(wl.intra) + Len(wl.fn_boundary) + Len(wl.call) + Len(wl.ret) = 0

----------------------------------------------------------------------------
(* Properties of the hooks, of the engine and of the worklist.             *)

\* the state a hook returns: the hook's value, or the state of its pair
ReturnedState ==
    IF op = "_initial_abstract_state" THEN out.val
    ELSE IF op = "_run_on_node" THEN out.val[2]
    ELSE out.val[1]

\* the join of two states' qualified live sets
JoinLivesets(a, b) == a \cup b

\* the livesets a fresh LiveVars holds: one empty set in the empty context
InitialLivesets == {QualifiedLiveSet(<< >>, {})}

\* what _state_map holds for the node of the call, as a set of live sets
StoredLivesets == IF Len(args[2]) > 0 THEN args[2][1].livesets ELSE InitialLivesets

\* the live sets arriving on the incoming edges of the call
IncomingLivesets == UNION {args[3][i].livesets : i \in 1..Len(args[3])}

(* C1: every block transfer, dummy-node crossing and join yields a         *)
(* LiveVars state, and in that state no two distinct qualified live sets   *)
(* have equal call strings.                                                *)
C1_OneLiveSetPerContext ==
    op \in {"_initial_abstract_state", "_run_on_node", "_merge_states"} =>
        IsOk(out) /\ DistinctContexts(ReturnedState)

(* C2: a join drops every arriving live set Q for which the node's state   *)
(* already holds another live set with the same uses whose context is a    *)
(* prefix of Q's context; the state returned does not contain Q.           *)
C2_RepresentedSetsAreDropped ==
    op = "_merge_states" =>
        /\ IsOk(out)
        /\ \A Q \in IncomingLivesets :
              (\E R \in StoredLivesets :
                    R # Q /\ R.uses = Q.uses /\ IsPrefix(R.ctx, Q.ctx))
                 => Q \notin out.val[1].livesets

(* C3: whenever the analysis run can take no further step, it has stopped  *)
(* at the fixpoint: the worklist is empty and every node's state is        *)
(* stable.                                                                 *)
C3_RunStopsAtFixpoint == DriverAtFixpoint \/ ENABLED DriverNext

(* C4: the transfer of a block with an indirect-jump site returns a state  *)
(* in which every qualified live set holds a use of every variable read by *)
(* the site's tmp-substituted target expression.                           *)
C4_JumpTargetVarsAreLive ==
    (op = "process" /\ HasJumpSite(args[2])) =>
        /\ IsOk(out)
        /\ \A q \in out.val.livesets : TargetVars(args[2], args[1]) \subseteq LiveVarsOf(q)

(* C5: _merge_states reports a fixpoint exactly when joining the arriving  *)
(* states into the node's stored state leaves the stored state unchanged.  *)
C5_FixpointIffJoinUnchanged ==
    op = "_merge_states" =>
        /\ IsOk(out)
        /\ out.val[2] = (JoinLivesets(StoredLivesets, IncomingLivesets) = StoredLivesets)

\* the live set q with the record of the call dummy node pushed
Pushed(q, node, s) == QualifiedLiveSet(Append(q.ctx, CtxRecord(node, s.sp, s.bp)), q.uses)

\* the live sets of s whose top record is the call paired with ret node
MatchingTop(s, node) ==
    {q \in s.livesets :
        Len(q.ctx) > 0 /\ CtxRecord_call_addr(Last(q.ctx)) = DummyNode_call_addr(node)}

(* C6: crossing a call dummy node pushes the node's record onto every live *)
(* set's call string; crossing a ret dummy node pops the top record of the *)
(* live sets whose top is the paired call and passes no other live set.    *)
C6_DummyNodesPushAndPop ==
    (op = "_run_on_node" /\ args[1].kind = "DummyNode") =>
        /\ IsOk(out)
        /\ args[1].dummy_type = "Dummy_Call" =>
              out.val[2].livesets = {Pushed(q, args[1], args[2]) : q \in args[2].livesets}
        /\ args[1].dummy_type = "Dummy_Ret" =>
              out.val[2].livesets =
                  {QualifiedLiveSet(ButLast(q.ctx), q.uses) : q \in MatchingTop(args[2], args[1])}

\* the slot of the worklist a node belongs to
IsBoundaryDummy(node) == node.kind = "DummyNode"

C8_CanRepresentIsPrefix ==
    op = "CallString.can_represent" =>
        Returns(out, IsPrefix(args[1], args[2]))

(* C9: a.can_represent(b) on qualified live sets returns True exactly when *)
(* the uses are equal and a's context is a prefix of b's; in particular    *)
(* every qualified live set represents itself.                             *)
C9_LiveSetCanRepresent ==
    op = "QualifiedLiveSet.can_represent" =>
        Returns(out, args[1].uses = args[2].uses /\ IsPrefix(args[1].ctx, args[2].ctx))

(* C10: the order on call strings compares lengths first: when A is        *)
(* shorter than B, A < B is True, and when A is longer, A < B is False.    *)
C10_LtComparesLengthFirst ==
    op = "CallString.__lt__" =>
        /\ Len(args[1]) < Len(args[2]) => Returns(out, TRUE)
        /\ Len(args[1]) > Len(args[2]) => Returns(out, FALSE)

(* C11: r == s on call records returns True exactly when the call nodes,  *)
(* the stack-pointer values and the base-pointer values are all equal, and *)
(* hash(r) returns a value.                                                *)
C11_RecordEqualityUsesPointers ==
    /\ op = "CtxRecord.__eq__" => Returns(out, args[1] = args[2])
    /\ op = "CtxRecord.__hash__" => IsOk(out)

----------------------------------------------------------------------------
(* One CallString object used as a stack: CallString() followed by any     *)
(* sequence of push, pop, top and stack.                                   *)

StackInit ==
    /\ op = "none"
    /\ args = << >>
    /\ out = Ok(NoneNode)
    /\ wl = Worklist("forward")
    /\ drv = NoRun
    /\ cs = << >>
    /\ ls = EmptyLiveSet
    /\ gen = NoGenerator

Stack_push ==
    \E r \in SnapshotRecords :
        /\ Len(cs) < MaxLen
        /\ op' = "CallString.push"
        /\ args' = <<cs, r>>
        /\ out' = CallString_push(cs, r).out
        /\ cs' = CallString_push(cs, r).cs
        /\ UNCHANGED <<wl, drv, ls, gen>>

Stack_pop ==
    /\ op' = "CallString.pop"
    /\ args' = <<cs, ls, gen>>
    /\ out' = CallString_pop(cs).out
    /\ cs' = CallString_pop(cs).cs
    /\ UNCHANGED <<wl, drv, ls, gen>>

Stack_top ==
    /\ op' = "CallString.top"
    /\ args' = <<cs, ls, gen>>
    /\ out' = CallString_top(cs)
    /\ UNCHANGED <<wl, drv, cs, ls, gen>>

Stack_stack ==
    /\ op' = "CallString.stack"
    /\ args' = <<cs, ls, gen>>
    /\ out' = CallString_stack(cs)
    /\ UNCHANGED <<wl, drv, cs, ls, gen>>

StackNext ==
    \/ Stack_push
    \/ Stack_pop
    \/ Stack_top
    \/ Stack_stack

StackSpec == StackInit /\ [][StackNext]_vars

(* C12: a CallString is a stack.  After push(r) the top is r, the older    *)
(* records are untouched, and a pop would return r and restore the         *)
(* previous contents; pop on a non-empty string returns its top and        *)
(* removes exactly that record; top is None on the empty string and the    *)
(* last record otherwise; stack lists the records oldest first.            *)
C12_CallStringIsStack ==
    /\ op = "CallString.push" =>
          /\ Len(cs) = Len(args[1]) + 1
          /\ \A i \in 1..Len(args[1]) : cs[i] = args[1][i]
          /\ CallString_top(cs) = Ok(args[2])
          /\ CallString_pop(cs).out = Ok(args[2])
          /\ CallString_pop(cs).cs = args[1]
    /\ (op = "CallString.pop" /\ Len(args[1]) > 0) =>
          /\ out = CallString_top(args[1])
          /\ Len(cs) = Len(args[1]) - 1
          /\ \A i \in 1..Len(cs) : cs[i] = args[1][i]
    /\ op = "CallString.top" =>
          /\ cs = args[1]
          /\ Len(cs) = 0 => out = Ok([kind |-> "None"])
          /\ Len(cs) > 0 => out = Ok(cs[Len(cs)])
    /\ op = "CallString.stack" => (cs = args[1] /\ out = Ok(cs))

\* a pop of a string holding two different records
C12_Witness ==
    /\ op = "CallString.pop"
    /\ Len(args[1]) = 2
    /\ args[1][1] # args[1][2]
    /\ out = Ok(args[1][2])

----------------------------------------------------------------------------
(* Properties of the supergraph the visitor's constructor builds.          *)

\* supergraph_from_cfg has been called
BuilderCalled == drv.pc # "SupergraphVisitor" /\ drv.pc # "idle"

\* supergraph_from_cfg returned a graph
SupergraphBuilt == BuilderCalled /\ drv.supergraph.nodes # {}

CallBlocks(cfg) == {n \in cfg.nodes : ~n.is_simprocedure /\ n.jumpkind = "Ijk_Call"}

\* the edges of g with the call or the ret dummy node of block n at an end
DummyEdgesOf(g, n) ==
    {e \in g.edges : \E i \in 1..2 : e[i].kind = "DummyNode" /\ e[i].addr = n.addr}

\* the edges the call block n is to have at its dummy nodes
ExpectedDummyEdges(cfg, n) ==
    LET C == DummyNode(n.addr, "Dummy_Call")
        R == DummyNode(n.addr, "Dummy_Ret")
        T == {e[2] : e \in {x \in cfg.edges : x[1] = n /\ x[3] = "Ijk_Call"}}
        S == {e[2] : e \in {x \in cfg.edges : x[1] = n /\ x[3] = "Ijk_FakeRet"}}
    IN  {<<n, C, "Ijk_Boring">>}
        \cup {<<C, t, "Ijk_Call">> : t \in T}
        \cup {<<r, R, "Ijk_Ret">> :
                r \in {m \in cfg.nodes : (m.has_return \/ m.is_simprocedure) /\
                            \E t \in T : m.function_address = t.function_address}}
        \cup {<<R, s, "Ijk_Boring">> : s \in S}

(* C13: once the supergraph is built from a CFG, every call-ending block N *)
(* has exactly these edges at its dummy nodes: N -> (N,Call) Boring,       *)
(* (N,Call) -> T Call for each call target T, R -> (N,Ret) Ret for each    *)
(* returning node R of a target's function, and (N,Ret) -> S Boring for    *)
(* each fall-through successor S.                                          *)
C13_CallBlockDummyEdges ==
    BuilderCalled =>
        \A n \in CallBlocks(drv.cfg) :
            /\ SupergraphBuilt
            /\ DummyEdgesOf(drv.supergraph, n) = ExpectedDummyEdges(drv.cfg, n)

\* the CFG edges that are to be copied: source not ending in a call, and
\* jumpkind neither Ret nor FakeRet
CopiedEdges(cfg) ==
    {e \in cfg.edges : e[1] \notin CallBlocks(cfg) /\ e[3] \notin {"Ijk_Ret", "Ijk_FakeRet"}}

----------------------------------------------------------------------------
(* Calls on the variable functions of vars.py and live_vars.py.            *)

IntTypes == {"Ity_I8", "Ity_I16", "Ity_I32", "Ity_I64"}

\* register file offsets used as operands: the pointers and two registers
RegOffsets == {amd64.sp_offset, amd64.bp_offset, amd64.ip_offset, rax, rbx}

\* address expressions: a register, or a register and a constant combined
\* in either operand order
AddrExprs ==
    {Get(o, "Ity_I64") : o \in {amd64.sp_offset, amd64.bp_offset, rax}}
    \cup {Binop(o, Get(r, "Ity_I64"), Const(c, "Ity_I64")) :
            o \in {"Iop_Add64", "Iop_Sub64", "Iop_And64"},
            r \in {amd64.sp_offset, amd64.bp_offset, rax}, c \in {8, 16}}
    \cup {Binop(o, Const(c, "Ity_I64"), Get(r, "Ity_I64")) :
            o \in {"Iop_Add64", "Iop_Sub64", "Iop_And64"},
            r \in {amd64.sp_offset, amd64.bp_offset, rax}, c \in {8, 16}}

DataExprs == {Const(0, ty) : ty \in IntTypes} \cup {Get(rax, "Ity_I32")}

PutStmts == {Put(d, o) : d \in DataExprs, o \in RegOffsets}

StoreStmts == {Store(a, d) : a \in AddrExprs, d \in {Const(0, "Ity_I32"), Get(rax, "Ity_I16")}}

LoadExprs == {Load(ty, a) : ty \in {"Ity_I32", "Ity_I64"}, a \in AddrExprs}

\* execution contexts: function 1 with the pointer values of the test suite
Ctxs == {ExecutionCtx(1, DEFAULT_SP, DEFAULT_BP, << >>),
         ExecutionCtx(1, 0, 0, << >>)}

Archs == {amd64, NoArch}

VarsInit ==
    /\ op = "none"
    /\ args = << >>
    /\ out = Ok(NoneNode)
    /\ wl = Worklist("forward")
    /\ drv = NoRun
    /\ cs = << >>
    /\ ls = EmptyLiveSet
    /\ gen = NoGenerator

Call_vars_modified ==
    \E stmt \in PutStmts \cup StoreStmts, ctx \in Ctxs, arch \in Archs :
        /\ op = "none"
        /\ op' = "vars_modified"
        /\ args' = <<stmt, ctx, arch>>
        /\ out' = vars_modified(stmt, ctx, arch)
        /\ UNCHANGED <<wl, drv, cs, ls, gen>>

Call_vars_used_expr ==
    \E expr \in LoadExprs, ctx \in Ctxs, arch \in Archs :
        /\ op = "none"
        /\ op' = "vars_used_expr"
        /\ args' = <<expr, ctx, arch>>
        /\ out' = vars_used_expr(expr, ctx, arch)
        /\ UNCHANGED <<wl, drv, cs, ls, gen>>

Call_stack_var ==
    \E addr \in AddrExprs, ctx \in Ctxs, arch \in Archs, ty \in IntTypes :
        /\ op = "none"
        /\ op' = "stack_var"
        /\ args' = <<addr, ctx, arch, ty>>
        /\ out' = stack_var(addr, ctx, arch, ty)
        /\ UNCHANGED <<wl, drv, cs, ls, gen>>

Call_memory_location ==
    \E addr \in AddrExprs, ctx \in Ctxs, arch \in Archs, ty \in IntTypes :
        /\ op = "none"
        /\ op' = "memory_location"
        /\ args' = <<addr, ctx, arch, ty>>
        /\ out' = memory_location(addr, ctx, arch, ty)
        /\ UNCHANGED <<wl, drv, cs, ls, gen>>

VarsNext ==
    \/ Call_vars_modified
    \/ Call_vars_used_expr
    \/ Call_stack_var
    \/ Call_memory_location

VarsSpec == VarsInit /\ [][VarsNext]_vars

\* the size in bytes of an integer type
TypeBytes(ty) ==
    IF ty = "Ity_I8" THEN 1 ELSE IF ty = "Ity_I16" THEN 2
    ELSE IF ty = "Ity_I32" THEN 4 ELSE 8

(* C15: with the architecture given, vars_modified of a Put returns        *)
(* {Register(offset, byte size of the data)} when the offset is none of    *)
(* the architecture's SP, BP and IP offsets, and the empty set when it is  *)
(* one of them.                                                            *)
C15_PutModifiesRegister ==
    (op = "vars_modified" /\ args[1].kind = "Put" /\ args[3].kind # "None") =>
        IF args[1].offset \in {args[3].sp_offset, args[3].bp_offset, args[3].ip_offset}
        THEN out = Ok({})
        ELSE out = Ok({Register(args[1].offset, TypeBytes(args[1].data.ty))})

\* a Put to the stack pointer of the given architecture modifies nothing
C15_Witness ==
    /\ op = "vars_modified"
    /\ args[1].kind = "Put"
    /\ args[3] = amd64
    /\ args[1].offset = amd64.sp_offset
    /\ out = Ok({})

\* e reads the stack or base pointer of arch
IsPointerGet(e, arch) ==
    e.kind = "Get" /\ e.offset \in {arch.sp_offset, arch.bp_offset}

\* addr is a pointer, or a pointer plus or minus a constant
IsStackAddr(addr, arch) ==
    \/ IsPointerGet(addr, arch)
    \/ /\ addr.kind = "Binop"
       /\ addr.op \in AddOps \cup SubOps
       /\ \E i \in {1, 2} : IsPointerGet(addr.args[i], arch) /\ addr.args[3 - i].kind = "Const"

\* the value the context holds for the pointer that e reads
PointerValue(e, ctx, arch) == IF e.offset = arch.sp_offset THEN ctx.sp ELSE ctx.bp

\* the stack variable a stack address names in the context
ExpectedStackVar(addr, ctx, arch, ty) ==
    IF addr.kind = "Get"
    THEN StackVar(ctx.fn, PointerValue(addr, ctx, arch), TypeBytes(ty))
    ELSE LET i == CHOOSE i \in {1, 2} : IsPointerGet(addr.args[i], arch)
             base == PointerValue(addr.args[i], ctx, arch)
             c == addr.args[3 - i].value
         IN StackVar(ctx.fn, IF addr.op \in AddOps THEN base + c ELSE base - c, TypeBytes(ty))

\* the variable an access of type ty at addr names
ExpectedLocation(addr, ctx, arch, ty) ==
    IF IsStackAddr(addr, arch) THEN ExpectedStackVar(addr, ctx, arch, ty)
    ELSE MemoryLocation(addr, TypeBytes(ty))

\* the registers other than the pointers that an address expression reads
AddrRegisters(addr, arch) ==
    LET gets == IF addr.kind = "Get" THEN {addr}
                ELSE {addr.args[i] : i \in {j \in {1, 2} : addr.args[j].kind = "Get"}}
    IN {Register(g.offset, TypeBytes(g.ty)) : g \in {h \in gets : ~IsPointerGet(h, arch)}}

(* C16: with the architecture given, a Load or a Store whose address is    *)
(* the stack or base pointer, or one of them plus or minus a constant,     *)
(* yields StackVar(function of the context, pointer value +- constant,     *)
(* access size in bytes) and no MemoryLocation, and such a Load uses no    *)
(* Register for the pointer; any other address yields                      *)
(* MemoryLocation(addr, size in bytes), and for a Load also the registers  *)
(* the address reads.                                                      *)
C16_StackAddressYieldsStackVar ==
    /\ (op = "memory_location" /\ args[3].kind # "None") =>
          out = Ok(ExpectedLocation(args[1], args[2], args[3], args[4]))
    /\ (op = "vars_used_expr" /\ args[1].kind = "Load" /\ args[3].kind # "None") =>
          out = Ok({ExpectedLocation(args[1].addr, args[2], args[3], args[1].ty)}
                   \cup AddrRegisters(args[1].addr, args[3]))
    /\ (op = "vars_modified" /\ args[1].kind = "Store" /\ args[3].kind # "None") =>
          out = Ok({ExpectedLocation(args[1].addr, args[2], args[3], result_type(args[1].data))})

\* the Add expression with its two operands exchanged
Commuted(addr) == Binop(addr.op, addr.args[2], addr.args[1])

(* C17: with the architecture given, stack_var of an Add of a pointer and  *)
(* a constant returns the same result for either operand order, that      *)
(* result is StackVar(function of the context, pointer value + constant,   *)
(* size), and stack_var of a Get of any other register returns None.       *)
C17_StackVarCommutes ==
    (op = "stack_var" /\ args[3].kind # "None") =>
        /\ (args[1].kind = "Binop" /\ args[1].op \in AddOps /\ IsStackAddr(args[1], args[3])) =>
              /\ out = stack_var(Commuted(args[1]), args[2], args[3], args[4])
              /\ out = Ok(ExpectedStackVar(args[1], args[2], args[3], args[4]))
        /\ (args[1].kind = "Get" /\ ~IsPointerGet(args[1], args[3])) => out = Ok(NoneValue)

(* C18: process of a block with no indirect-jump site (a constant next or *)
(* a jumpkind other than Boring and Call, and no Exit with a non-constant  *)
(* dst) on a state whose qualified live sets are all empty returns a state *)
(* equal to the input state.                                               *)
C18_NoJumpBlockLeavesStateEmpty ==
    (/\ op = "process"
     /\ ~HasJumpSite(args[2])
     /\ \A q \in args[1].livesets : q.uses = {}) => out = Ok(args[1])

----------------------------------------------------------------------------
(* One QualifiedLiveSet object on which uses are generated and variables   *)
(* are killed.                                                             *)

\* two uses of each variable, as arbitrary_var_uses(vars, 2) builds them
UseSites == {VarUse(v, CodeLocation(0, i)) : v \in Vars, i \in 0..1}

LiveSetInit ==
    /\ op = "none"
    /\ args = << >>
    /\ out = Ok(NoneNode)
    /\ wl = Worklist("forward")
    /\ drv = NoRun
    /\ cs = << >>
    /\ ls \in {QualifiedLiveSet(c, {}) : c \in {d \in CallStrings : Len(d) <= 1}}
    /\ gen = NoGenerator

LiveSet_gen_uses ==
    \E uses \in {U \in SUBSET UseSites : Cardinality(U) <= 2} :
        /\ op' = "gen_uses"
        /\ args' = <<ls, uses>>
        /\ out' = Ok(NoneValue)
        /\ ls' = QualifiedLiveSet_gen_uses(ls, uses)
        /\ UNCHANGED <<wl, drv, cs, gen>>

LiveSet_kill_vars ==
    \E vs \in SUBSET Vars :
        /\ op' = "kill_vars"
        /\ args' = <<ls, vs>>
        /\ out' = Ok(NoneValue)
        /\ ls' = QualifiedLiveSet_kill_vars(ls, vs)
        /\ UNCHANGED <<wl, drv, cs, gen>>

LiveSetNext ==
    \/ LiveSet_gen_uses
    \/ LiveSet_kill_vars

LiveSetSpec == LiveSetInit /\ [][LiveSetNext]_vars

(* C19: kill_vars(v1..vn) removes every use whose variable is one of       *)
(* v1..vn and keeps every use of every other variable; gen_uses(u1..un)    *)
(* makes the uses the union of the previous uses and {u1..un}; neither     *)
(* changes the context of the live set.                                    *)
C19_KillAndGenOnLiveSet ==
    /\ op = "kill_vars" =>
          /\ \A u \in UseSites : u \in ls.uses <=> (u \in args[1].uses /\ u.var \notin args[2])
          /\ ls.uses \subseteq UseSites
          /\ ls.ctx = args[1].ctx
    /\ op = "gen_uses" =>
          /\ \A u \in UseSites : u \in ls.uses <=> (u \in args[1].uses \/ u \in args[2])
          /\ ls.uses \subseteq UseSites
          /\ ls.ctx = args[1].ctx

\* a kill of one variable that removed both of its uses and kept the two
\* uses of another variable, in a non-empty context
C19_Witness ==
    /\ op = "kill_vars"
    /\ Len(ls.ctx) = 1
    /\ \E v \in args[2] : Cardinality({u \in args[1].uses : u.var = v}) = 2
    /\ \E v \in Vars \ args[2] : Cardinality({u \in ls.uses : u.var = v}) = 2

(* C20: when lifting or processing the block raises an engine error,     *)
(* process returns normally with the state it was given when fail_fast is  *)
(* not set and passes the error on to the caller when fail_fast is set; a  *)
(* state argument that is not a LiveVars fails with a type error whatever  *)
(* fail_fast is.                                                           *)
C20_EngineErrorSkipsBlock ==
    /\ (op = "process" /\ Raised(vex(args[2]))) =>
          IF args[3] THEN out = Raise("SimEngineError") ELSE out = Ok(args[1])
    /\ op = "process_not_LiveVars" => out = Raise("TypeError")

\* the registers a statement of TransferStmts writes and reads
StmtModified(stmt) ==
    IF stmt.kind = "Put" THEN {Register(stmt.offset, TypeBytes(stmt.data.ty))}
    ELSE {MemoryLocation(stmt.addr, TypeBytes(stmt.data.ty))}

StmtUsed(stmt) ==
    {Register(e.offset, TypeBytes(e.ty)) :
        e \in {d \in (IF stmt.kind = "Put" THEN {stmt.data} ELSE {stmt.addr, stmt.data}) :
                    d.kind = "Get"}}

\* the variables of a set of uses
VarsOf(uses) == {u.var : u \in uses}

(* C21: for a statement that is not an indirect-jump site, _handle_Stmt    *)
(* returns a state in which a qualified live set that held a use of a      *)
(* modified variable has lost those uses and gained uses of exactly the    *)
(* statement's used variables, and a live set that held no use of a        *)
(* modified variable is unchanged.                                         *)
C21_GenUsesIfLive ==
    op = "handle_Stmt" =>
        /\ IsOk(out)
        /\ \A q \in args[1].livesets :
              IF VarsOf(q.uses) \cap StmtModified(args[2]) = {}
              THEN q \in out.val.livesets
              ELSE \E r \in out.val.livesets :
                      /\ r.ctx = q.ctx
                      /\ VarsOf(r.uses) =
                            (VarsOf(q.uses) \ StmtModified(args[2])) \cup StmtUsed(args[2])

\* the live sets of state s with the uses of q and a context that is a
\* prefix of q's
Representing(s, q) ==
    {l \in s.livesets : l.uses = q.uses /\ IsPrefix(l.ctx, q.ctx)}

(* C22: representative(Q) returns, among the live sets of the LiveVars     *)
(* with the uses of Q and a context that is a prefix of Q.ctx, the one     *)
(* with the shortest context, and None when there is none.                 *)
C22_RepresentativeIsShortestPrefix ==
    op = "representative" =>
        IF Representing(args[1], args[2]) = {} THEN out = Ok(NoneValue)
        ELSE /\ IsOk(out)
             /\ out.val \in Representing(args[1], args[2])
             /\ \A d \in Representing(args[1], args[2]) : Len(out.val.ctx) <= Len(d.ctx)

(* C23: represented_by(Q) returns exactly the live sets                    *)
(* {uses = Q.uses, ctx = c} for the contexts c of the live sets of the     *)
(* LiveVars of which Q.ctx is a prefix.                                    *)
C23_RepresentedByExpands ==
    op = "represented_by" =>
        out = Ok({QualifiedLiveSet(l.ctx, args[2].uses) :
                    l \in {m \in args[1].livesets : IsPrefix(args[2].ctx, m.ctx)}})

(* C24: the state _merge_states hands back for storing at a node holds    *)
(* every qualified live set of the state stored for that node before the   *)
(* merge: the stored state only grows.                                     *)
C24_StoredStateOnlyGrows ==
    op = "_merge_states" =>
        /\ IsOk(out)
        /\ StoredLivesets \subseteq out.val[1].livesets

\* the expression reads a tmp somewhere
RECURSIVE HasTmp(_)
HasTmp(e) ==
    IF e.kind = "RdTmp" THEN TRUE
    ELSE IF e.kind = "Binop" THEN HasTmp(e.args[1]) \/ HasTmp(e.args[2])
    ELSE IF e.kind = "Load" THEN HasTmp(e.addr)
    ELSE IF e.kind = "GetI" THEN HasTmp(e.ix)
    ELSE FALSE

(* C25: for a block in SSA form the pre-pass builds a map in which every   *)
(* bound expression is tmp-free, and replace_tmps with that map returns an *)
(* expression with no RdTmp for every expression whose tmps are all bound. *)
C25_TmpsAreSubstitutedAway ==
    op = "replace_tmps" =>
        /\ \A t \in DOMAIN args[3] : ~HasTmp(args[3][t])
        /\ ~HasTmp(out.val)

\* the expression or lifted constant is a constant
IsConstant(e) == e.kind \in {"Const", "IRConst"}

(* C26: is_indirect_jump on a block returns the block's next when next is  *)
(* not a constant and the jumpkind is Boring or Call, on a statement       *)
(* returns dst when the statement is an Exit with a non-constant dst and   *)
(* jumpkind Boring or Call, and returns None in every other case.          *)
C26_IndirectJumpSites ==
    op = "is_indirect_jump" =>
        IF "statements" \in DOMAIN args[1]
        THEN out = Ok(IF ~IsConstant(args[1].next) /\ args[1].jumpkind \in {"Ijk_Boring", "Ijk_Call"}
                      THEN args[1].next ELSE NoneValue)
        ELSE out = Ok(IF /\ args[1].kind = "Exit"
                         /\ ~IsConstant(args[1].dst)
                         /\ args[1].jk \in {"Ijk_Boring", "Ijk_Call"}
                      THEN args[1].dst ELSE NoneValue)

----------------------------------------------------------------------------
(* The generator of Worklist.exhaust, created on a worklist that holds     *)
(* nodes and resumed until it ends.                                        *)

ExhaustNodes == {CFGNode(a, 1, FALSE, FALSE, "Ijk_Boring") : a \in Addrs}

\* graphs over the nodes: every subset of the edges of one cycle
ExhaustGraphs ==
    {[nodes |-> ExhaustNodes,
      edges |-> {<<p[1], p[2], "Ijk_Boring">> :
                    p \in {q \in ExhaustNodes \X ExhaustNodes : <<q[1].addr, q[2].addr>> \in A}}] :
        A \in SUBSET {<<1, 2>>, <<2, 3>>, <<3, 1>>}}

\* worklists holding up to two intraprocedural nodes
HeldWorklists ==
    {[Worklist(d) EXCEPT !.intra = s] : d \in Directions, s \in SeqsUpTo(ExhaustNodes, 2)}

ExhaustInit ==
    /\ op = "none"
    /\ args = << >>
    /\ out = Ok(NoneNode)
    /\ wl = Worklist("forward")
    /\ drv = NoRun
    /\ cs = << >>
    /\ ls = EmptyLiveSet
    /\ gen = NoGenerator

\* wl.exhaust(supergraph): the generator is created, no statement has run
Exhaust_start ==
    \E w \in HeldWorklists, g \in ExhaustGraphs :
        /\ gen.status = "none"
        /\ op' = "Worklist.exhaust"
        /\ args' = <<w, g>>
        /\ out' = Ok(NoneNode)
        /\ wl' = w
        /\ gen' = [status |-> "suspended", graph |-> g, visited |-> {}, yielded |-> << >>]
        /\ UNCHANGED <<drv, cs, ls>>

\* the generator is resumed: it runs to its next yield, to its end, or to
\* the exception that ends it
Exhaust_resume ==
    /\ gen.status = "suspended"
    /\ op' = "exhaust.resume"
    /\ UNCHANGED <<args, drv, cs, ls>>
    /\ IF ~Worklist_has_next(wl)
       THEN /\ gen' = [gen EXCEPT !.status = "done"]
            /\ out' = Ok(NoneNode)
            /\ UNCHANGED wl
       ELSE LET r == exhaust_iteration(wl, gen.graph, gen.visited)
            IN  IF Raised(r)
                THEN /\ gen' = [gen EXCEPT !.status = "raised"]
                     /\ out' = r
                     /\ UNCHANGED wl
                ELSE /\ gen' = [gen EXCEPT !.visited = r.val.visited,
                                           !.yielded = Append(@, r.val.node)]
                     /\ out' = Ok(r.val.node)
                     /\ wl' = r.val.wl

ExhaustNext ==
    \/ Exhaust_start
    \/ Exhaust_resume

ExhaustSpec == ExhaustInit /\ [][ExhaustNext]_vars /\ WF_vars(ExhaustNext)

\* the nodes reachable from the set S along the edges of g in direction d
RECURSIVE ReachableFrom(_, _, _)
ReachableFrom(g, S, d) ==
    LET step == S \cup {IF d = "forward" THEN e[2] ELSE e[1] :
                          e \in {f \in g.edges : (IF d = "forward" THEN f[1] ELSE f[2]) \in S}}
    IN  IF step = S THEN S ELSE ReachableFrom(g, step, d)

(* C27: the generator of Worklist.exhaust ends normally, yields no node    *)
(* twice, and has by its end yielded exactly the nodes reachable from the  *)
(* nodes the worklist held at the start, in the traversal direction.       *)
C27_ExhaustYieldsReachableOnce ==
    /\ gen.status # "raised"
    /\ \A i, j \in 1..Len(gen.yielded) : i # j => gen.yielded[i] # gen.yielded[j]
    /\ gen.status = "done" =>
          {gen.yielded[i] : i \in 1..Len(gen.yielded)} =
              ReachableFrom(gen.graph, {args[1].intra[i] : i \in 1..Len(args[1].intra)},
                            args[1].direction)

(* C28: for all call strings A and B the comparisons return, A <= B holds *)
(* exactly when A < B or A == B, and exactly one of A < B, A == B and      *)
(* B < A holds.                                                            *)
C28_ComparisonsAreConsistent ==
    op = "CallString.compare" =>
        /\ \A k \in {"lt", "le", "eq", "gt"} : IsOk(out.val[k])
        /\ out.val.le.val = (out.val.lt.val \/ out.val.eq.val)
        /\ Cardinality({k \in {"lt", "eq", "gt"} : out.val[k].val}) = 1

OutEdges(g, n) == {e \in g.edges : e[1] = n}

(* C30: once the supergraph is built from a CFG, every call-ending block   *)
(* has exactly one outgoing edge, the Boring edge to its own dummy call    *)
(* node, and every outgoing edge of a simprocedure node is a Ret edge into *)
(* a dummy ret node.                                                       *)
C30_CallBlockLeavesThroughItsCallNode ==
    BuilderCalled =>
        /\ \A n \in CallBlocks(drv.cfg) :
              /\ SupergraphBuilt
              /\ OutEdges(drv.supergraph, n) =
                    {<<n, DummyNode(n.addr, "Dummy_Call"), "Ijk_Boring">>}
        /\ \A n \in {m \in drv.cfg.nodes : m.is_simprocedure} :
              \A e \in OutEdges(drv.supergraph, n) :
                  /\ e[3] = "Ijk_Ret"
                  /\ e[2].kind = "DummyNode"
                  /\ e[2].dummy_type = "Dummy_Ret"
=============================================================================
